---------------------------- MODULE Spec2Model ----------------------------
(***************************************************************************)
(* Model of the map-tile export pipeline of                                *)
(* src/src/components/maps/MapsExporterApp.tsx: the React component's      *)
(* state and refs, the control handlers (exportZip, togglePause,           *)
(* stopAndPack, cancelExport) and the asynchronous body of exportZip, cut  *)
(* at its suspension points (the awaits that return to the event loop).    *)
(*                                                                         *)
(* Conventions.                                                            *)
(*  - A nullable value is a sequence: <<>> is null, <<v>> holds v.         *)
(*  - A string the code inspects (a URL template, a name) is a sequence    *)
(*    of tokens or characters; a message is a TLA+ string.                 *)
(*  - A timestamp (new Date()) is only "set" or null: no property reads  *)
(*    its value.                                                           *)
(*  - React state is modelled as committed when the handler or the         *)
(*    continuation that sets it ends (every handler reads the last         *)
(*    committed value).                                                    *)
(*  - Code between two suspension points runs atomically (JavaScript's     *)
(*    run-to-completion); an await of an already settled promise resumes   *)
(*    in a microtask, before any other event, and does not cut an action.  *)
(*  - Timers (150 ms poll, 1000 ms retry delay, 0 ms yield) and network    *)
(*    completions fire at any time relative to the user's clicks.          *)
(***************************************************************************)
EXTENDS Integers, Sequences, FiniteSets, TLC

(***************************************************************************)
(* Bounds of the model.                                                    *)
(***************************************************************************)
\* Sessions (calls of exportZip that pass its guard) in one behaviour.
MaxSessions == 2
\* Largest zoom level offered by the zoom selectors in the model.
MaxZoom == 1
\* Largest byte length of a fetched tile body.
MaxTileBytes == 1
\* Largest planned job list the model lets a session start with.
MaxJobs == 2
\* Largest zoom level of the plans that are only planned, not fetched.
MaxPlanZoom == 2
\* Zoom level of the plans long enough for several progress updates.
MaxLongZoom == 3
\* Most jobs of a long plan that fail all their attempts.
MaxFailedTiles == 1
\* Longest text typed into the pack name field.
MaxNameLen == 4
\* calls of exportZip followed while the map source is being edited
MaxUISessions == 1

(***************************************************************************)
(* Program constants.                                                      *)
(***************************************************************************)
MAX_RETRIES == 3
PROGRESS_EVERY == 25
MAX_ZOOM_LEVEL == 18

Null == <<>>
Some(v) == <<v>>

\* Messages the session can record in exportError.
NoError == "null"
CancelledMsg == "Cancelled."
ExportCancelledMsg == "Export cancelled"
\* message of the DOMException a fetch rejects with when its signal aborts
AbortErrorMsg == "AbortError: The operation was aborted."
\* message of an error thrown by zip.generateAsync
PackagingErrorMsg == "generateAsync failed"

Min2(a, b) == IF a <= b THEN a ELSE b
Max2(a, b) == IF a >= b THEN a ELSE b

RECURSIVE Pow2(_)
Pow2(n) == IF n = 0 THEN 1 ELSE 2 * Pow2(n - 1)

(***************************************************************************)
(* Strings as sequences.                                                   *)
(***************************************************************************)
Includes(s, tok) == \E i \in DOMAIN s : s[i] = tok

RECURSIVE TrimStart(_)
TrimStart(s) == IF s # <<>> /\ Head(s) = " " THEN TrimStart(Tail(s)) ELSE s

RECURSIVE TrimEnd(_)
TrimEnd(s) ==
    IF s # <<>> /\ s[Len(s)] = " " THEN TrimEnd(SubSeq(s, 1, Len(s) - 1)) ELSE s

\* String.prototype.trim
Trim(s) == TrimEnd(TrimStart(s))

\* String.prototype.replace(tok, by) with a string pattern: the first
\* occurrence only.
ReplaceFirst(s, tok, by) ==
    LET hits == {k \in DOMAIN s : s[k] = tok}
    IN  IF hits = {} THEN s
        ELSE LET first == CHOOSE k \in hits : \A j \in hits : k <= j
             IN  SubSeq(s, 1, first - 1) \o by \o SubSeq(s, first + 1, Len(s))

\* str.replace(tok, by) for each string str of S
Replaced(S, tok, by) == {ReplaceFirst(str, tok, by) : str \in S}

DigitChars == <<"0", "1", "2", "3", "4", "5", "6", "7", "8", "9">>

\* String(n) for a non-negative integer: its decimal digits.
RECURSIVE DecimalDigits(_)
DecimalDigits(n) ==
    IF n < 10 THEN <<DigitChars[n + 1]>>
    ELSE DecimalDigits(n \div 10) \o <<DigitChars[(n % 10) + 1]>>

\* String(n) for an integer
String(n) == IF n < 0 THEN <<"-">> \o DecimalDigits(0 - n) ELSE DecimalDigits(n)

\* a % n of JavaScript for n > 0: the remainder has the sign of a
JsRem(a, n) == IF a >= 0 THEN a % n ELSE 0 - ((0 - a) % n)

\* subs[(job.x + job.y) % subs.length]: undefined when the index is NaN
\* (empty list) or negative
SubdomainOf(subs, job) ==
    IF Len(subs) = 0 THEN <<>>
    ELSE LET r == JsRem(job.x + job.y, Len(subs))
         IN  IF r < 0 THEN <<>> ELSE <<subs[r + 1]>>

\* buildTileUrl; s is <<>> for undefined, and `s ?? ""` is then the empty
\* string
buildTileUrl(template, z, x, y, s) ==
    CHOOSE url \in
        Replaced(Replaced(Replaced(Replaced({template}, "{s}", s),
                                   "{z}", String(z)),
                          "{x}", String(x)),
                 "{y}", String(y)) : TRUE

(***************************************************************************)
(* Geometry.  A latitude is a pair <<d, f>> of integers of the same sign   *)
(* standing for d + f * 10^-8 degrees (so that 85.05112878 is exact); a    *)
(* longitude is a whole number of degrees.                                 *)
(***************************************************************************)
LatLE(a, b) == a[1] < b[1] \/ (a[1] = b[1] /\ a[2] <= b[2])
LatMin(a, b) == IF LatLE(a, b) THEN a ELSE b
LatMax(a, b) == IF LatLE(a, b) THEN b ELSE a
LatNeg(a) == <<0 - a[1], 0 - a[2]>>
Deg(d) == <<d, 0>>

\* 85.05112878
MAX_LAT == <<85, 5112878>>

\* A clamp to whole degrees.
clampLatWhole(lat) == LatMax(Deg(-85), LatMin(Deg(85), lat))

clampLat(lat) == LatMax(LatNeg(MAX_LAT), LatMin(MAX_LAT, lat))

lon2tileX(lon, z) == ((lon + 180) * Pow2(z)) \div 360

\* floor(((1 - merc / PI) / 2) * 2^18) for merc = log(tan(PI/4 + rad/2)),
\* evaluated in IEEE doubles as lat2tileY does, for the sample latitudes.
\* Multiplying a double by 2^z is exact, so floor(v * 2^z) is this value
\* divided (rounding down) by 2^(18 - z).
MercatorFixed(lat) ==
    CASE lat = MAX_LAT         -> -1
      [] lat = LatNeg(MAX_LAT) -> 262144
      [] lat = Deg(85)         -> 429
      [] lat = Deg(-85)        -> 261714
      [] lat = Deg(0)          -> 131072
      [] lat = Deg(10)         -> 123752
      [] lat = Deg(-10)        -> 138391
      [] lat = Deg(37)         -> 102034
      [] lat = Deg(38)         -> 101116
      [] lat = Deg(-37)        -> 160109

lat2tileY(lat, z) == MercatorFixed(lat) \div Pow2(MAX_ZOOM_LEVEL - z)

clampZoomPair(from, to) ==
    LET a == Max2(0, Min2(MAX_ZOOM_LEVEL, from))
        b == Max2(0, Min2(MAX_ZOOM_LEVEL, to))
    IN  IF a > b THEN <<b, a>> ELSE <<a, b>>

range(from, to) == [k \in 1..Max2(0, to - from + 1) |-> from + k - 1]

\* The estimate's tile count for one zoom.  lon2x is kept in 1/360 of a
\* tile and lat2y in 1/2^18 of a tile, so that Math.floor is applied, as in
\* the code, after Math.min and Math.max.
tilesForBboxExclusive(south, west, north, east, z) ==
    LET n == Pow2(z)
        xmin == Min2((west + 180) * n, (east + 180) * n) \div 360
        xmax == Max2((west + 180) * n, (east + 180) * n) \div 360
        y1 == MercatorFixed(LatMax(LatNeg(MAX_LAT), LatMin(MAX_LAT, north))) * n
        y2 == MercatorFixed(LatMax(LatNeg(MAX_LAT), LatMin(MAX_LAT, south))) * n
        ymin == Min2(y1, y2) \div Pow2(MAX_ZOOM_LEVEL)
        ymax == Max2(y1, y2) \div Pow2(MAX_ZOOM_LEVEL)
    IN  Max2(0, xmax - xmin) * Max2(0, ymax - ymin)

tilesForBbox(south, west, north, east, z) ==
    LET n == Pow2(z)
        lon2x(lon) == (lon + 180) * n
        lat2y(lat) == MercatorFixed(lat) * n
        clampLatLocal(lat) == LatMax(LatNeg(MAX_LAT), LatMin(MAX_LAT, lat))
        y1 == lat2y(clampLatLocal(north))
        y2 == lat2y(clampLatLocal(south))
        x1 == lon2x(west)
        x2 == lon2x(east)
        xmin == Min2(x1, x2) \div 360
        xmax == Max2(x1, x2) \div 360
        ymin == Min2(y1, y2) \div Pow2(MAX_ZOOM_LEVEL)
        ymax == Max2(y1, y2) \div Pow2(MAX_ZOOM_LEVEL)
        w == Max2(0, xmax - xmin + 1)
        h == Max2(0, ymax - ymin + 1)
    IN  w * h

\* A column listed from yMax down to yMin.
ColumnJobsDescending(z, x, yMin, yMax) ==
    [k \in 1..Max2(0, yMax - yMin + 1) |-> [z |-> z, x |-> x, y |-> yMax - k + 1]]

\* The doubly nested loop of the planner for one zoom: x ascending, and for
\* each x, y ascending.
ColumnJobs(z, x, yMin, yMax) ==
    [k \in 1..Max2(0, yMax - yMin + 1) |-> [z |-> z, x |-> x, y |-> yMin + k - 1]]

RECURSIVE ZoomJobsFrom(_, _, _, _, _)
ZoomJobsFrom(z, x, xMax, yMin, yMax) ==
    IF x > xMax THEN <<>>
    ELSE ColumnJobs(z, x, yMin, yMax) \o ZoomJobsFrom(z, x + 1, xMax, yMin, yMax)

ZoomJobs(b, z) ==
    LET nLat == clampLat(b.north)
        sLat == clampLat(b.south)
        xMin == Min2(lon2tileX(b.west, z), lon2tileX(b.east, z))
        xMax == Max2(lon2tileX(b.west, z), lon2tileX(b.east, z))
        yMin == Min2(lat2tileY(nLat, z), lat2tileY(sLat, z))
        yMax == Max2(lat2tileY(nLat, z), lat2tileY(sLat, z))
    IN  ZoomJobsFrom(z, xMin, xMax, yMin, yMax)

\* jobs: the precomputed tile jobs of exportZip
RECURSIVE PlanJobs(_, _)
PlanJobs(b, zooms) ==
    IF zooms = <<>> THEN <<>>
    ELSE ZoomJobs(b, Head(zooms)) \o PlanJobs(b, Tail(zooms))

(***************************************************************************)
(* Names.  A name is a sequence of characters; a character outside ASCII   *)
(* is written by its code point.                                           *)
(***************************************************************************)
AsciiLetters ==
    {"a", "b", "c", "d", "e", "f", "g", "h", "i", "j", "k", "l", "m",
     "n", "o", "p", "q", "r", "s", "t", "u", "v", "w", "x", "y", "z",
     "A", "B", "C", "D", "E", "F", "G", "H", "I", "J", "K", "L", "M",
     "N", "O", "P", "Q", "R", "S", "T", "U", "V", "W", "X", "Y", "Z"}
AsciiDigits == {DigitChars[i] : i \in DOMAIN DigitChars}
IsAlnum(c) == c \in AsciiLetters \cup AsciiDigits

\* the combining diacritical marks U+0300..U+036F that the names use
IsCombiningMark(c) == c \in {"U+0301", "U+0303", "U+0327"}

\* canonical/compatibility decomposition of one character
DecomposeChar(c) ==
    CASE c = "U+00E3" -> <<"a", "U+0303">>
      [] c = "U+00E9" -> <<"e", "U+0301">>
      [] c = "U+00E7" -> <<"c", "U+0327">>
      [] OTHER        -> <<c>>

\* String.prototype.normalize("NFKD")
RECURSIVE NFKD(_)
NFKD(s) == IF s = <<>> THEN <<>> ELSE DecomposeChar(Head(s)) \o NFKD(Tail(s))

\* .replace(/[\u0300-\u036f]/g, "")
StripMarks(s) == SelectSeq(s, LAMBDA c : ~IsCombiningMark(c))

\* .replace(/[^a-zA-Z0-9]+/g, "_")
RECURSIVE ReplaceNonAlnumRuns(_)
ReplaceNonAlnumRuns(s) ==
    IF s = <<>> THEN <<>>
    ELSE IF IsAlnum(Head(s)) THEN <<Head(s)>> \o ReplaceNonAlnumRuns(Tail(s))
    ELSE IF Len(s) > 1 /\ ~IsAlnum(s[2]) THEN ReplaceNonAlnumRuns(Tail(s))
    ELSE <<"_">> \o ReplaceNonAlnumRuns(Tail(s))

RECURSIVE StripLeadingUnderscores(_)
StripLeadingUnderscores(s) ==
    IF s # <<>> /\ Head(s) = "_" THEN StripLeadingUnderscores(Tail(s)) ELSE s

RECURSIVE StripTrailingUnderscores(_)
StripTrailingUnderscores(s) ==
    IF s # <<>> /\ s[Len(s)] = "_"
    THEN StripTrailingUnderscores(SubSeq(s, 1, Len(s) - 1))
    ELSE s

\* .replace(/^_+|_+$/g, "")
TrimUnderscores(s) == StripTrailingUnderscores(StripLeadingUnderscores(s))

\* .replace(/_+/g, "_")
RECURSIVE CollapseUnderscores(_)
CollapseUnderscores(s) ==
    IF s = <<>> THEN <<>>
    ELSE IF Head(s) = "_" /\ Len(s) > 1 /\ s[2] = "_"
         THEN CollapseUnderscores(Tail(s))
    ELSE <<Head(s)>> \o CollapseUnderscores(Tail(s))

\* A sanitizer without .replace(/^_+|_+$/g, "").
normalizeNameUntrimmed(name) ==
    CollapseUnderscores(ReplaceNonAlnumRuns(StripMarks(NFKD(name))))

normalizeName(name) ==
    CollapseUnderscores(TrimUnderscores(ReplaceNonAlnumRuns(StripMarks(NFKD(name)))))

(***************************************************************************)
(* Tile sources.  A URL template is a sequence of tokens, the placeholders *)
(* {s} {z} {x} {y} {r} being tokens of their own.                          *)
(***************************************************************************)
TileProviderIds ==
    {"none", "carto_dark", "osm", "opentopo", "carto", "google", "custom"}

TILE_PROVIDERS ==
    [id \in TileProviderIds \ {"none"} |->
       CASE id = "osm" ->
              [url |-> <<"https://", "{s}", ".tile.openstreetmap.org/",
                         "{z}", "/", "{x}", "/", "{y}", ".png">>,
               subdomains |-> Some(<<"a", "b", "c">>)]
         [] id = "opentopo" ->
              [url |-> <<"https://", "{s}", ".tile.opentopomap.org/",
                         "{z}", "/", "{x}", "/", "{y}", ".png">>,
               subdomains |-> Some(<<"a", "b", "c">>)]
         [] id = "carto_dark" ->
              [url |-> <<"https://", "{s}", ".basemaps.cartocdn.com/dark_all/",
                         "{z}", "/", "{x}", "/", "{y}", "{r}", ".png">>,
               subdomains |-> Some(<<"a", "b", "c", "d">>)]
         [] id = "carto" ->
              [url |-> <<"https://", "{s}", ".basemaps.cartocdn.com/light_all/",
                         "{z}", "/", "{x}", "/", "{y}", ".png">>,
               subdomains |-> Some(<<"a", "b", "c", "d">>)]
         [] id = "google" -> [url |-> <<>>, subdomains |-> Null]
         [] id = "custom" -> [url |-> <<>>, subdomains |-> Null]]

(***************************************************************************)
(* Inputs the model draws from.                                            *)
(***************************************************************************)
\* the provider buttons the model's user clicks
ProviderChoices == {"osm", "google", "custom"}

\* texts typed into the custom URL field
CustomUrls ==
    {<<"https://tiles.example/", "{z}", "/", "{x}", "/", "{y}", ".png">>,
     <<"https://tiles.example/", "{z}", "/", "{x}">>}

\* areas the map shows
BBoxes ==
    {[south |-> Deg(37), west |-> -9, north |-> Deg(38), east |-> -8],
     [south |-> Deg(10), west |-> -10, north |-> Deg(37), east |-> 10]}

\* texts typed into the pack name field
PackNames ==
    {<<>>,
     <<"S", "U+00E3", "o", " ", "P", "a", "u", "l", "o", " ", "/", " ",
       "T", "e", "s", "t", "!">>}

TileSizes == 1..MaxTileBytes

\* edges of the areas that are only planned: the poles, the clamp limits and
\* latitudes between them; the antimeridian and longitudes between
PlanLats ==
    {Deg(-90), LatNeg(MAX_LAT), Deg(-37), Deg(0), Deg(37), Deg(85), MAX_LAT,
     Deg(90)}

PlanLons == {-180, -9, 0, 10, 180}

PlanBoxes ==
    {b \in [south : PlanLats, west : PlanLons, north : PlanLats, east : PlanLons] :
        LatLE(b.south, b.north) /\ b.west <= b.east}

\* custom tile URL templates, without and with the {s} placeholder
TemplateChoices ==
    {<<"https://tiles.example/", "{z}", "/", "{x}", "/", "{y}", ".png">>,
     <<"https://", "{s}", ".tiles.example/", "{z}", "/", "{x}", "/", "{y}">>}

\* characters typed into the pack name field
NameAlphabet == {"a", "Z", "7", "_", " ", "/", "U+00E3", "U+0301"}

TypedNames ==
    UNION {[1..n -> NameAlphabet] : n \in 0..MaxNameLen}

SessionIds == 1..MaxSessions

(***************************************************************************)
(* State.                                                                  *)
(***************************************************************************)
VARIABLES
    \* useState of MapsExporterApp: the inputs
    detailLevel, showAdvanced, zoomFrom, zoomTo, bounds, tileProviderId,
    customTileUrl, customUrlApplied, packName,
    \* useState of MapsExporterApp: the session as displayed
    isExporting, progress, exportError, failedTiles, isPaused, startedAt,
    endedAt, downloadedBytes,
    \* useRef of MapsExporterApp
    pauseRef, abortRef, packNowRef,
    \* signal.aborted of the AbortController created by each call of exportZip
    aborted,
    \* the calls of exportZip: nsess of them were made, sess[i] holds the
    \* locals and the position of the i-th
    nsess, sess,
    \* the button of the last click, if it was disabled ("none" otherwise)
    rejected

inputVars ==
    <<detailLevel, showAdvanced, zoomFrom, zoomTo, bounds, tileProviderId,
      customTileUrl, customUrlApplied, packName>>

displayVars ==
    <<isExporting, progress, exportError, failedTiles, isPaused, startedAt,
      endedAt, downloadedBytes>>

refVars == <<pauseRef, abortRef, packNowRef, aborted>>

vars == <<inputVars, displayVars, refVars, nsess, sess, rejected>>

(***************************************************************************)
(* Values derived at each render.                                          *)
(***************************************************************************)
tileTemplate ==
    IF tileProviderId = "custom" THEN Trim(customTileUrl)
    ELSE IF tileProviderId = "none" THEN <<>>
    ELSE TILE_PROVIDERS[tileProviderId].url

tileSubdomains ==
    IF tileProviderId = "custom"
    THEN (IF Includes(tileTemplate, "{s}") THEN <<"a", "b", "c">> ELSE <<>>)
    ELSE IF tileProviderId = "none" THEN <<>>
    ELSE IF TILE_PROVIDERS[tileProviderId].subdomains # Null
         THEN TILE_PROVIDERS[tileProviderId].subdomains[1]
         ELSE <<>>

isValidCustomUrl ==
    /\ tileProviderId = "custom"
    /\ Includes(customTileUrl, "{z}")
    /\ Includes(customTileUrl, "{x}")
    /\ Includes(customTileUrl, "{y}")

isTileSourceSelected ==
    IF tileProviderId = "custom"
    THEN isValidCustomUrl /\ customUrlApplied
    ELSE Len(tileTemplate) > 0

effectiveZooms ==
    IF showAdvanced
    THEN LET p == clampZoomPair(zoomFrom, zoomTo) IN range(p[1], p[2])
    ELSE IF detailLevel = "Low" THEN range(0, 8)
    ELSE IF detailLevel = "Medium" THEN range(0, 12)
    ELSE range(0, 16)

\* estimate.tiles: the tile count shown before the export
RECURSIVE SumTiles(_, _)
SumTiles(b, zooms) ==
    IF zooms = <<>> THEN 0
    ELSE tilesForBbox(b.south, b.west, b.north, b.east, Head(zooms))
         + SumTiles(b, Tail(zooms))

estimateTiles == IF bounds = Null THEN Null ELSE Some(SumTiles(bounds[1], effectiveZooms))

\* `Maps z${effectiveZooms[0]}-${effectiveZooms[effectiveZooms.length - 1]}`
\* (the dash is U+2013)
DefaultPackName ==
    <<"M", "a", "p", "s", " ", "z">> \o DecimalDigits(effectiveZooms[1])
    \o <<"U+2013">> \o DecimalDigits(effectiveZooms[Len(effectiveZooms)])

\* An Export button that does not look at the map source.
ExportDisabledIgnoresSource == bounds = Null \/ isExporting

\* disabled={!bounds || !isTileSourceSelected || isExporting}
ExportDisabled == bounds = Null \/ ~isTileSourceSelected \/ isExporting

\* Pause and Stop usable whenever the progress panel is rendered.
ControlsDisabledOnlyUnshown == progress = Null

\* The progress panel holds the Pause, Stop and Cancel buttons; Pause and
\* Stop are disabled={!isExporting}.
ControlsDisabled == progress = Null \/ ~isExporting

\* The Cancel button is rendered only while isExporting.
CancelShown == progress # Null /\ isExporting

(***************************************************************************)
(* The body of exportZip.  Its steps are functions of a pair m:            *)
(*   m.sh  the component's session state and refs (shared by every call),  *)
(*   m.me  the locals of this call of exportZip, its position pc, and      *)
(*         what it has done so far (fetches, delays, error, saved).        *)
(* pc names the await the call is suspended at:                            *)
(*   "wait"   the 150 ms timer of waitWhilePaused                          *)
(*   "fetch"  fetch(url, {signal}) or res.blob()                           *)
(*   "buffer" blob.arrayBuffer()                                           *)
(*   "delay"  the RETRY_DELAY_MS timer                                     *)
(*   "yield"  the 0 ms timer after a progress update                       *)
(*   "zip"    zip.generateAsync                                            *)
(*   "end"    the call has returned;  "idle": the call was not made yet.   *)
(***************************************************************************)
Shared ==
    [isExporting |-> isExporting, progress |-> progress,
     exportError |-> exportError, failedTiles |-> failedTiles,
     isPaused |-> isPaused, startedAt |-> startedAt, endedAt |-> endedAt,
     downloadedBytes |-> downloadedBytes, pauseRef |-> pauseRef,
     abortRef |-> abortRef, packNowRef |-> packNowRef, aborted |-> aborted]

IdleSession ==
    [pc |-> "idle", jobs |-> <<>>, meta |-> Null, placeName |-> <<>>,
     \* tileSubdomains of the render the call was made on, and the URL of
     \* the current job
     subs |-> <<>>, url |-> <<>>,
     done |-> 0, attempt |-> 0, fetched |-> FALSE, ctrl |-> 0, arr |-> 0,
     zipTiles |-> {}, zipMeta |-> Null,
     \* requests sent and retry delays taken for the current job
     fetches |-> 0, delays |-> 0,
     \* positions in jobs of the jobs whose fetch succeeded
     okJobs |-> {},
     \* cancelExport ran while this call was suspended
     cancelRequested |-> FALSE,
     \* stopAndPack ran while this call was suspended
     stopRequested |-> FALSE,
     \* the message caught by exportZip's catch
     error |-> NoError,
     \* the arguments of saveAs
     saved |-> Null]

Now == Some("date")

\* A finally block that leaves the stop-and-pack request standing.
FinallyKeepsStop(m) ==
    [sh |-> [m.sh EXCEPT !.isExporting = FALSE, !.endedAt = Now,
                         !.abortRef = 0, !.pauseRef = FALSE],
     me |-> [m.me EXCEPT !.pc = "end"]]

\* finally { ... }
Finally(m) ==
    [sh |-> [m.sh EXCEPT !.isExporting = FALSE, !.endedAt = Now,
                         !.abortRef = 0, !.packNowRef = FALSE,
                         !.pauseRef = FALSE],
     me |-> [m.me EXCEPT !.pc = "end"]]

\* catch (e) { setExportError(e?.message ?? "Export failed") } finally {...}
Throw(m, msg) ==
    Finally([sh |-> [m.sh EXCEPT !.exportError = msg],
             me |-> [m.me EXCEPT !.error = msg]])

\* A packaging step that hands the archive over before it is generated.
FinalizeSavesEarly(m) ==
    [m EXCEPT !.me.zipMeta = m.me.meta, !.me.pc = "zip",
              !.me.saved = Some([name |-> m.me.placeName \o <<".zip">>,
                                 tiles |-> m.me.zipTiles,
                                 meta |-> m.me.meta])]

\* A packaging step that describes what was attempted instead of what was
\* requested: the zoom list keeps only the zooms of the jobs the loop reached.
FinalizeAttempted(m) ==
    LET Reached(z) == \E k \in 1..m.me.done : m.me.jobs[k].z = z
        asked == m.me.meta[1]
    IN  [m EXCEPT !.me.zipMeta =
                     Some([asked EXCEPT !.zooms = SelectSeq(asked.zooms, Reached)]),
                  !.me.pc = "zip"]

\* root.file("export.amd", ...); await zip.generateAsync(...)
Finalize(m) ==
    [m EXCEPT !.me.zipMeta = m.me.meta, !.me.pc = "zip"]

RECURSIVE LoopHead(_)
RECURSIVE RetryCatch(_, _)

\* A cursor that counts only the tiles that were stored.
JobDoneSkipsFailed(m) ==
    LET d == IF m.me.fetched THEN m.me.done + 1 ELSE m.me.done
        total == Len(m.me.jobs)
        m1 == [m EXCEPT !.me.done = d]
    IN  IF d % PROGRESS_EVERY = 0 \/ d = total
        THEN [m1 EXCEPT !.sh.progress = Some([done |-> d, total |-> total]),
                        !.me.pc = "yield"]
        ELSE LoopHead(m1)

\* A cursor that shows its progress after the last job only.
JobDoneFinalOnly(m) ==
    LET d == m.me.done + 1
        total == Len(m.me.jobs)
        m1 == [m EXCEPT !.me.done = d]
    IN  IF d = total
        THEN [m1 EXCEPT !.sh.progress = Some([done |-> d, total |-> total]),
                        !.me.pc = "yield"]
        ELSE LoopHead(m1)

\* done++ and the batched progress update
JobDone(m) ==
    LET d == m.me.done + 1
        total == Len(m.me.jobs)
        m1 == [m EXCEPT !.me.done = d]
    IN  IF d % PROGRESS_EVERY = 0 \/ d = total
        THEN [m1 EXCEPT !.sh.progress = Some([done |-> d, total |-> total]),
                        !.me.pc = "yield"]
        ELSE LoopHead(m1)

\* the retry loop is left: if (!fetched) setFailedTiles((n) => n + 1)
AfterAttempts(m) ==
    IF m.me.fetched THEN JobDone(m)
    ELSE JobDone([m EXCEPT !.sh.failedTiles = @ + 1])

\* await fetch(url, { signal: ctrl.signal }): a signal already aborted
\* rejects the call at once
IssueFetch(m) ==
    IF m.sh.aborted[m.me.ctrl]
    THEN RetryCatch(m, "AbortError")
    ELSE [m EXCEPT !.me.pc = "fetch", !.me.fetches = @ + 1]

\* A catch without `if (err?.name === "AbortError") throw err`: an abort is
\* retried like any other failure.
RetryCatchNoRethrow(m, errName) ==
    IF m.me.attempt < MAX_RETRIES - 1
    THEN [m EXCEPT !.me.pc = "delay", !.me.delays = @ + 1]
    ELSE AfterAttempts([m EXCEPT !.me.attempt = @ + 1])

\* A catch that lets the failure of the last attempt leave the job loop.
RetryCatchPropagates(m, errName) ==
    IF errName = "AbortError" THEN Throw(m, AbortErrorMsg)
    ELSE IF m.me.attempt < MAX_RETRIES - 1
    THEN [m EXCEPT !.me.pc = "delay", !.me.delays = @ + 1]
    ELSE Throw(m, "HTTP 500")

\* A catch that tests `attempt < MAX_RETRIES`: it also waits after the last
\* attempt.
RetryCatchWaitsAfterLast(m, errName) ==
    IF errName = "AbortError" THEN Throw(m, AbortErrorMsg)
    ELSE IF m.me.attempt < MAX_RETRIES
    THEN [m EXCEPT !.me.pc = "delay", !.me.delays = @ + 1]
    ELSE AfterAttempts([m EXCEPT !.me.attempt = @ + 1])

\* catch (err) of one attempt
RetryCatch(m, errName) ==
    IF errName = "AbortError" THEN Throw(m, AbortErrorMsg)
    ELSE IF m.me.attempt < MAX_RETRIES - 1
    THEN [m EXCEPT !.me.pc = "delay", !.me.delays = @ + 1]
    ELSE AfterAttempts([m EXCEPT !.me.attempt = @ + 1])

\* after await waitWhilePaused(): the stop check, the abort handle, and the
\* first attempt
AfterWait(m) ==
    IF m.sh.packNowRef THEN Finalize(m)
    ELSE IF m.sh.abortRef = 0 THEN Throw(m, ExportCancelledMsg)
    ELSE IssueFetch([m EXCEPT !.me.ctrl = m.sh.abortRef,
                              !.me.fetched = FALSE, !.me.attempt = 0,
                              !.me.fetches = 0, !.me.delays = 0])

\* A loop that resolves each URL with the template and the subdomains of
\* the current render.
LoopHeadLiveTemplate(m) ==
    CHOOSE next \in
      { IF v.me.done = Len(v.me.jobs) THEN Finalize(v)
        ELSE LET job == v.me.jobs[v.me.done + 1]
                 s == SubdomainOf(tileSubdomains, job)
                 url == buildTileUrl(tileTemplate, job.z, job.x, job.y, s)
             IN  IF v.sh.pauseRef
                 THEN [v EXCEPT !.me.url = url, !.me.pc = "wait"]
                 ELSE AfterWait([v EXCEPT !.me.url = url])
        : v \in {m} } : TRUE

\* for (const job of jobs): the next job, or the end of the loop.  The loop
\* has run done times, so the next job is jobs[done + 1].  (The set names
\* the value of m, so that it is worked out once.)
LoopHead(m) ==
    CHOOSE next \in
      { IF v.me.done = Len(v.me.jobs) THEN Finalize(v)
        ELSE LET job == v.me.jobs[v.me.done + 1]
                 s == SubdomainOf(v.me.subs, job)
                 url == buildTileUrl(v.me.meta[1].tileSource,
                                     job.z, job.x, job.y, s)
             IN  IF v.sh.pauseRef
                 THEN [v EXCEPT !.me.url = url, !.me.pc = "wait"]
                 ELSE AfterWait([v EXCEPT !.me.url = url])
        : v \in {m} } : TRUE

\* A poll that leaves the wait only on resume: it does not see that the
\* flags were cleared by Stop.
WaitTickMissesStop(m) ==
    IF m.sh.pauseRef \/ m.sh.packNowRef THEN m ELSE AfterWait(m)

\* the timer of waitWhilePaused fires
WaitTick(m) == IF m.sh.pauseRef THEN m ELSE AfterWait(m)

\* the response arrived with res.ok and its body was read
FetchOk(m, size) == [m EXCEPT !.me.arr = size, !.me.pc = "buffer"]

\* A failure path that stores the body of the failed response as the tile.
FetchFailStoresBody(m) ==
    LET job == m.me.jobs[m.me.done + 1]
        entry == [z |-> job.z, x |-> job.x, y |-> job.y, size |-> 0]
    IN  RetryCatch([m EXCEPT !.me.zipTiles = @ \cup {entry}], "Error")

\* the response is not ok, or the request failed
FetchFail(m) == RetryCatch(m, "Error")

\* blob.arrayBuffer() resolved: count the bytes, store the tile
BufferDone(m) ==
    LET job == m.me.jobs[m.me.done + 1]
        entry == [z |-> job.z, x |-> job.x, y |-> job.y, size |-> m.me.arr]
        others == {e \in m.me.zipTiles :
                     ~(e.z = job.z /\ e.x = job.x /\ e.y = job.y)}
    IN  AfterAttempts([m EXCEPT !.sh.downloadedBytes = @ + m.me.arr,
                                !.me.zipTiles = others \cup {entry},
                                !.me.okJobs = @ \cup {m.me.done + 1},
                                !.me.fetched = TRUE])

\* A retry that looks at the stop flag before the next attempt.
DelayDoneChecksStop(m) ==
    IF m.sh.packNowRef THEN Finalize(m)
    ELSE IssueFetch([m EXCEPT !.me.attempt = @ + 1])

\* the retry delay elapsed: attempt++ and the next attempt
DelayDone(m) == IssueFetch([m EXCEPT !.me.attempt = @ + 1])

\* the 0 ms timer fired
YieldDone(m) == LoopHead(m)

\* generateAsync resolved: saveAs(outBlob, `${placeName}.zip`)
ZipOk(m) ==
    Finally([m EXCEPT !.me.saved =
               Some([name |-> m.me.placeName \o <<".zip">>,
                     tiles |-> m.me.zipTiles, meta |-> m.me.zipMeta])])

\* A rejection of generateAsync that no catch records.
ZipFailSwallowed(m) == Finally(m)

\* generateAsync rejected
ZipFail(m) == Throw(m, PackagingErrorMsg)

\* exportZip from its first line to its first suspension, as call number id;
\* sh is the shared state it finds.  The inputs are those of the render the
\* click was made on.
exportZip(sh, id) ==
    LET regionName ==
            IF Trim(packName) # <<>> THEN Trim(packName) ELSE DefaultPackName
        jobs == PlanJobs(bounds[1], effectiveZooms)
        sh1 == [sh EXCEPT !.exportError = NoError, !.isExporting = TRUE,
                          !.progress = Some([done |-> 0, total |-> Len(jobs)]),
                          !.failedTiles = 0, !.isPaused = FALSE,
                          !.pauseRef = FALSE, !.packNowRef = FALSE,
                          !.startedAt = Now, !.endedAt = Null,
                          !.downloadedBytes = 0, !.abortRef = id,
                          !.aborted = [@ EXCEPT ![id] = FALSE]]
        me == [IdleSession EXCEPT
                 !.jobs = jobs,
                 !.placeName = normalizeName(regionName),
                 !.subs = tileSubdomains,
                 !.meta = Some([region |-> regionName, bbox |-> bounds[1],
                                zooms |-> effectiveZooms, createdAt |-> Now,
                                tileSource |-> tileTemplate])]
    IN  LoopHead([sh |-> sh1, me |-> me])

\* cancelExport, on the shared state
cancelExport(sh) ==
    [sh EXCEPT !.aborted = IF sh.abortRef # 0
                           THEN [@ EXCEPT ![sh.abortRef] = TRUE] ELSE @,
               !.abortRef = 0, !.packNowRef = FALSE, !.pauseRef = FALSE,
               !.isPaused = FALSE, !.isExporting = FALSE, !.endedAt = Now,
               !.exportError = CancelledMsg]

\* togglePause
togglePause(sh) ==
    [sh EXCEPT !.pauseRef = ~sh.pauseRef, !.isPaused = ~sh.pauseRef]

\* stopAndPack
stopAndPack(sh) ==
    [sh EXCEPT !.packNowRef = TRUE, !.pauseRef = FALSE, !.isPaused = FALSE]

\* The fetches in flight on controller c reject with an AbortError: each
\* call resumes in its catch, in a microtask, before any other event.
RECURSIVE RejectInFlight(_, _, _, _)
RejectInFlight(sh, ss, c, i) ==
    IF i > MaxSessions THEN [sh |-> sh, ss |-> ss]
    ELSE IF ss[i].pc = "fetch" /\ ss[i].ctrl = c
    THEN LET m == RetryCatch([sh |-> sh, me |-> ss[i]], "AbortError")
         IN  RejectInFlight(m.sh, [ss EXCEPT ![i] = m.me], c, i + 1)
    ELSE RejectInFlight(sh, ss, c, i + 1)

(***************************************************************************)
(* Actions.                                                                *)
(***************************************************************************)
SetShared(sh) ==
    /\ isExporting' = sh.isExporting
    /\ progress' = sh.progress
    /\ exportError' = sh.exportError
    /\ failedTiles' = sh.failedTiles
    /\ isPaused' = sh.isPaused
    /\ startedAt' = sh.startedAt
    /\ endedAt' = sh.endedAt
    /\ downloadedBytes' = sh.downloadedBytes
    /\ pauseRef' = sh.pauseRef
    /\ abortRef' = sh.abortRef
    /\ packNowRef' = sh.packNowRef
    /\ aborted' = sh.aborted

\* session i resumes from the await it is suspended at and runs to m
\* (the quantifier names the value of m, so that it is worked out once)
Resume(i, m) ==
    /\ \E r \in {m} : /\ SetShared(r.sh)
                        /\ sess' = [sess EXCEPT ![i] = r.me]
    /\ rejected' = "none"
    /\ UNCHANGED <<inputVars, nsess>>

Me(i) == [sh |-> Shared, me |-> sess[i]]

\* The plan is one the model can hold.
PlanFits ==
    /\ Len(effectiveZooms) <= MaxZoom + 1
    /\ Len(PlanJobs(bounds[1], effectiveZooms)) <= MaxJobs

\* if (!bounds) return;
exportZipReturns == bounds = Null

\* A click on "Export zip" while it is enabled; limit bounds the calls made
\* and fits says whether the model follows a plan of this size.
StartExportFit(limit, fits) ==
    /\ ~ExportDisabled
    /\ ~exportZipReturns
    /\ nsess < limit
    /\ fits
    /\ \E m \in {exportZip(Shared, nsess + 1)} :
           /\ SetShared(m.sh)
           /\ sess' = [sess EXCEPT ![nsess + 1] = m.me]
    /\ nsess' = nsess + 1
    /\ rejected' = "none"
    /\ UNCHANGED inputVars

StartExport(limit) == StartExportFit(limit, PlanFits)

ClickExport == StartExport(MaxSessions)

\* A click on "Export zip", for a plan of any size.
ClickExportPlan == StartExportFit(MaxSessions, TRUE)

\* A click on "Export zip" while it is disabled: the handler does not run.
ClickExportDisabled ==
    /\ ExportDisabled
    /\ rejected' = "export"
    /\ UNCHANGED <<inputVars, displayVars, refVars, nsess, sess>>

\* A click on "Pause" / "Continue".
ClickPause ==
    /\ ~ControlsDisabled
    /\ SetShared(togglePause(Shared))
    /\ rejected' = "none"
    /\ UNCHANGED <<inputVars, nsess, sess>>

ClickPauseDisabled ==
    /\ ControlsDisabled
    /\ rejected' = "pause"
    /\ UNCHANGED <<inputVars, displayVars, refVars, nsess, sess>>

\* A click on "Stop and pack what we have".
ClickStop ==
    /\ ~ControlsDisabled
    /\ SetShared(stopAndPack(Shared))
    /\ sess' = [i \in SessionIds |->
                  IF sess[i].pc \in {"idle", "end"} THEN sess[i]
                  ELSE [sess[i] EXCEPT !.stopRequested = TRUE]]
    /\ rejected' = "none"
    /\ UNCHANGED <<inputVars, nsess>>

ClickStopDisabled ==
    /\ ControlsDisabled
    /\ rejected' = "stop"
    /\ UNCHANGED <<inputVars, displayVars, refVars, nsess, sess>>

\* A click on "Cancel", and the rejections it delivers.
ClickCancel ==
    /\ CancelShown
    /\ LET marked == [i \in SessionIds |->
                        IF sess[i].pc \in {"idle", "end"} THEN sess[i]
                        ELSE [sess[i] EXCEPT !.cancelRequested = TRUE]]
           r == RejectInFlight(cancelExport(Shared), marked, abortRef, 1)
       IN  /\ SetShared(r.sh)
           /\ sess' = r.ss
    /\ rejected' = "none"
    /\ UNCHANGED <<inputVars, nsess>>

\* The timer of waitWhilePaused fires in session i.
WaitTimer(i) ==
    /\ sess[i].pc = "wait"
    /\ Resume(i, WaitTick(Me(i)))

\* The fetch of session i succeeds with a body of size bytes.
FetchSucceeds(i) ==
    /\ sess[i].pc = "fetch"
    /\ \E size \in TileSizes : Resume(i, FetchOk(Me(i), size))

\* The fetch of session i fails (status not ok, or a network error).
FetchFails(i) ==
    /\ sess[i].pc = "fetch"
    /\ Resume(i, FetchFail(Me(i)))

BufferRead(i) ==
    /\ sess[i].pc = "buffer"
    /\ Resume(i, BufferDone(Me(i)))

RetryTimer(i) ==
    /\ sess[i].pc = "delay"
    /\ Resume(i, DelayDone(Me(i)))

YieldTimer(i) ==
    /\ sess[i].pc = "yield"
    /\ Resume(i, YieldDone(Me(i)))

ZipGenerated(i) ==
    /\ sess[i].pc = "zip"
    /\ Resume(i, ZipOk(Me(i)))

ZipRejected(i) ==
    /\ sess[i].pc = "zip"
    /\ Resume(i, ZipFail(Me(i)))

\* A click on a provider button.
SelectProvider(id) ==
    /\ tileProviderId' = id
    /\ bounds' = Null
    /\ customUrlApplied' = FALSE
    /\ rejected' = "none"
    /\ UNCHANGED <<detailLevel, showAdvanced, zoomFrom, zoomTo, customTileUrl,
                   packName, displayVars, refVars, nsess, sess>>

\* Typing into the custom URL field (rendered for the custom provider).
TypeCustomUrl(u) ==
    /\ tileProviderId = "custom"
    /\ customTileUrl' = u
    /\ rejected' = "none"
    /\ UNCHANGED <<detailLevel, showAdvanced, zoomFrom, zoomTo, bounds,
                   tileProviderId, customUrlApplied, packName, displayVars,
                   refVars, nsess, sess>>

\* A click on "Load map" (disabled unless the custom URL is valid).
ClickLoadMap ==
    /\ isValidCustomUrl
    /\ customUrlApplied' = TRUE
    /\ rejected' = "none"
    /\ UNCHANGED <<detailLevel, showAdvanced, zoomFrom, zoomTo, bounds,
                   tileProviderId, customTileUrl, packName, displayVars,
                   refVars, nsess, sess>>

\* A map that is mounted whatever the source is.
MapBoundsUnguarded(b) ==
    /\ bounds' = Some(b)
    /\ rejected' = "none"
    /\ UNCHANGED <<detailLevel, showAdvanced, zoomFrom, zoomTo,
                   tileProviderId, customTileUrl, customUrlApplied, packName,
                   displayVars, refVars, nsess, sess>>

\* The mounted map reports its bounds (MapInitializer, BboxTracker).
MapBounds(b) ==
    /\ isTileSourceSelected
    /\ bounds' = Some(b)
    /\ rejected' = "none"
    /\ UNCHANGED <<detailLevel, showAdvanced, zoomFrom, zoomTo,
                   tileProviderId, customTileUrl, customUrlApplied, packName,
                   displayVars, refVars, nsess, sess>>

\* A choice in the "Zoom from" select.
SelectZoomFrom(z) ==
    /\ showAdvanced
    /\ zoomFrom' = z
    /\ rejected' = "none"
    /\ UNCHANGED <<detailLevel, showAdvanced, zoomTo, bounds, tileProviderId,
                   customTileUrl, customUrlApplied, packName, displayVars,
                   refVars, nsess, sess>>

\* A choice in the "Zoom to" select.
SelectZoomTo(z) ==
    /\ showAdvanced
    /\ zoomTo' = z
    /\ rejected' = "none"
    /\ UNCHANGED <<detailLevel, showAdvanced, zoomFrom, bounds, tileProviderId,
                   customTileUrl, customUrlApplied, packName, displayVars,
                   refVars, nsess, sess>>

\* Typing into the pack name field.
TypePackName(n) ==
    /\ packName' = n
    /\ rejected' = "none"
    /\ UNCHANGED <<detailLevel, showAdvanced, zoomFrom, zoomTo, bounds,
                   tileProviderId, customTileUrl, customUrlApplied,
                   displayVars, refVars, nsess, sess>>

\* The user has chosen a map source and the map has reported its bounds.
Init ==
    /\ detailLevel = "Medium"
    /\ showAdvanced = TRUE
    /\ zoomFrom = 0
    /\ zoomTo \in 0..MaxZoom
    /\ bounds \in {Some(b) : b \in BBoxes}
    /\ tileProviderId = "osm"
    /\ customTileUrl = <<>>
    /\ customUrlApplied = FALSE
    /\ packName \in PackNames
    /\ isExporting = FALSE
    /\ progress = Null
    /\ exportError = NoError
    /\ failedTiles = 0
    /\ isPaused = FALSE
    /\ startedAt = Null
    /\ endedAt = Null
    /\ downloadedBytes = 0
    /\ pauseRef = FALSE
    /\ abortRef = 0
    /\ packNowRef = FALSE
    /\ aborted = [c \in SessionIds |-> FALSE]
    /\ nsess = 0
    /\ sess = [i \in SessionIds |-> IdleSession]
    /\ rejected = "none"

SessionStep ==
    \/ \E i \in SessionIds : WaitTimer(i)
    \/ \E i \in SessionIds : FetchSucceeds(i)
    \/ \E i \in SessionIds : FetchFails(i)
    \/ \E i \in SessionIds : BufferRead(i)
    \/ \E i \in SessionIds : RetryTimer(i)
    \/ \E i \in SessionIds : YieldTimer(i)
    \/ \E i \in SessionIds : ZipGenerated(i)
    \/ \E i \in SessionIds : ZipRejected(i)

Next ==
    \/ ClickExport
    \/ ClickPause
    \/ ClickStop
    \/ ClickCancel
    \/ SessionStep

Spec == Init /\ [][Next]_vars

(***************************************************************************)
(* The exporter with its scheduling: a pending timer fires, a request in   *)
(* flight settles, a read or an archive generation settles.  The poll of   *)
(* waitWhilePaused keeps running, so it sees the flag cleared if the flag  *)
(* is cleared again and again; and the user does not leave a paused export *)
(* paused for ever.                                                        *)
(***************************************************************************)
UserEndsPause == pauseRef /\ (ClickPause \/ ClickStop \/ ClickCancel)

\* what session i is waiting for, other than the poll, happens
Settles(i) ==
    \/ FetchSucceeds(i) \/ FetchFails(i)
    \/ BufferRead(i)
    \/ RetryTimer(i)
    \/ YieldTimer(i)
    \/ ZipGenerated(i) \/ ZipRejected(i)

Fairness ==
    /\ \A i \in SessionIds : SF_vars(WaitTimer(i))
    /\ \A i \in SessionIds : WF_vars(Settles(i))
    /\ WF_vars(UserEndsPause)

\* The first area of BBoxes is on screen and the pack name field is empty.
InitFair ==
    /\ Init
    /\ bounds = Some([south |-> Deg(37), west |-> -9,
                      north |-> Deg(38), east |-> -8])
    /\ packName = <<>>

FairSpec == InitFair /\ [][Next]_vars /\ Fairness

(***************************************************************************)
(* The page from the moment it is opened on the advanced zoom range: no    *)
(* map source is chosen and the map is not mounted.  The user chooses and  *)
(* edits the source, the map reports its bounds, and every button may be   *)
(* clicked, enabled or not.                                                *)
(***************************************************************************)
InitUI ==
    /\ detailLevel = "Medium"
    /\ showAdvanced = TRUE
    /\ zoomFrom = 0
    /\ zoomTo \in 0..MaxZoom
    /\ bounds = Null
    /\ tileProviderId = "none"
    /\ customTileUrl = <<>>
    /\ customUrlApplied = FALSE
    /\ packName = <<>>
    /\ isExporting = FALSE
    /\ progress = Null
    /\ exportError = NoError
    /\ failedTiles = 0
    /\ isPaused = FALSE
    /\ startedAt = Null
    /\ endedAt = Null
    /\ downloadedBytes = 0
    /\ pauseRef = FALSE
    /\ abortRef = 0
    /\ packNowRef = FALSE
    /\ aborted = [c \in SessionIds |-> FALSE]
    /\ nsess = 0
    /\ sess = [i \in SessionIds |-> IdleSession]
    /\ rejected = "none"

ClickExportUI == StartExport(MaxUISessions)

NextUI ==
    \/ \E id \in ProviderChoices : SelectProvider(id)
    \/ \E u \in CustomUrls : TypeCustomUrl(u)
    \/ ClickLoadMap
    \/ \E b \in BBoxes : MapBounds(b)
    \/ ClickExportUI
    \/ ClickExportDisabled
    \/ ClickPause
    \/ ClickPauseDisabled
    \/ ClickStop
    \/ ClickStopDisabled
    \/ ClickCancel
    \/ SessionStep

SpecUI == InitUI /\ [][NextUI]_vars

(***************************************************************************)
(* The exporter up to the first request of an export: areas with edges at  *)
(* and beyond the clamp limits with any zoom range, and typed pack names.  *)
(* A click on Cancel ends the call so that Export can be clicked again.    *)
(***************************************************************************)
InitPlan ==
    /\ detailLevel = "Medium"
    /\ showAdvanced = TRUE
    /\ \/ /\ zoomFrom \in 0..MaxPlanZoom
          /\ zoomTo \in 0..MaxPlanZoom
          /\ bounds \in {Some(b) : b \in PlanBoxes}
          /\ packName = <<>>
       \/ /\ zoomFrom = 0
          /\ zoomTo = 0
          /\ bounds = Some([south |-> Deg(37), west |-> -9,
                            north |-> Deg(38), east |-> -8])
          /\ packName \in TypedNames
    /\ \/ /\ tileProviderId = "osm"
          /\ customTileUrl = <<>>
          /\ customUrlApplied = FALSE
       \/ /\ zoomTo = MaxPlanZoom
          /\ packName = <<>>
          /\ \/ /\ tileProviderId = "carto_dark"
                /\ customTileUrl = <<>>
                /\ customUrlApplied = FALSE
             \/ /\ tileProviderId = "custom"
                /\ customTileUrl \in TemplateChoices
                /\ customUrlApplied = TRUE
    /\ isExporting = FALSE
    /\ progress = Null
    /\ exportError = NoError
    /\ failedTiles = 0
    /\ isPaused = FALSE
    /\ startedAt = Null
    /\ endedAt = Null
    /\ downloadedBytes = 0
    /\ pauseRef = FALSE
    /\ abortRef = 0
    /\ packNowRef = FALSE
    /\ aborted = [c \in SessionIds |-> FALSE]
    /\ nsess = 0
    /\ sess = [i \in SessionIds |-> IdleSession]
    /\ rejected = "none"

NextPlan == ClickExportPlan \/ ClickCancel

SpecPlan == InitPlan /\ [][NextPlan]_vars

(***************************************************************************)
(* The exporter on a long plan: one export of an area of 40 or 52 tiles,   *)
(* with every control, and with at most MaxFailedTiles jobs failing all    *)
(* their attempts.                                                         *)
(***************************************************************************)
InitLong ==
    /\ detailLevel = "Medium"
    /\ showAdvanced = TRUE
    /\ zoomFrom \in {MaxLongZoom - 1, MaxLongZoom}
    /\ zoomTo = MaxLongZoom
    /\ bounds = Some([south |-> Deg(-85), west |-> -180,
                      north |-> Deg(85), east |-> 10])
    /\ tileProviderId = "osm"
    /\ customTileUrl = <<>>
    /\ customUrlApplied = FALSE
    /\ packName = <<>>
    /\ isExporting = FALSE
    /\ progress = Null
    /\ exportError = NoError
    /\ failedTiles = 0
    /\ isPaused = FALSE
    /\ startedAt = Null
    /\ endedAt = Null
    /\ downloadedBytes = 0
    /\ pauseRef = FALSE
    /\ abortRef = 0
    /\ packNowRef = FALSE
    /\ aborted = [c \in SessionIds |-> FALSE]
    /\ nsess = 0
    /\ sess = [i \in SessionIds |-> IdleSession]
    /\ rejected = "none"

\* A click on "Export zip", for a plan of any size, once.
ClickExportLong == StartExportFit(MaxUISessions, TRUE)

LongStep ==
    \/ \E i \in SessionIds : WaitTimer(i)
    \/ \E i \in SessionIds : FetchSucceeds(i)
    \/ \E i \in SessionIds : failedTiles < MaxFailedTiles /\ FetchFails(i)
    \/ \E i \in SessionIds : BufferRead(i)
    \/ \E i \in SessionIds : RetryTimer(i)
    \/ \E i \in SessionIds : YieldTimer(i)
    \/ \E i \in SessionIds : ZipGenerated(i)
    \/ \E i \in SessionIds : ZipRejected(i)

NextLong ==
    \/ ClickExportLong
    \/ ClickPause
    \/ ClickStop
    \/ ClickCancel
    \/ LongStep

SpecLong == InitLong /\ [][NextLong]_vars

(***************************************************************************)
(* Properties.                                                             *)
(***************************************************************************)
Active(i) == sess[i].pc \notin {"idle", "end"}

Archive(i) == sess[i].saved[1]

Delivered(i) == sess[i].saved # Null

CancelMessages == {AbortErrorMsg, ExportCancelledMsg}

\* C1: a session on which Cancel was clicked while it was running never
\* hands an archive to saveAs, wherever the click fell.
C1_CancelledYieldsNoArchive ==
    \A i \in SessionIds : sess[i].cancelRequested => ~Delivered(i)

\* C2: a delivered archive holds one entry for each job whose fetch
\* succeeded, under that job's z/x/y, no entry for a job that failed or was
\* never reached, and the metadata entry export.amd.
C2_ArchiveHoldsSucceededTiles ==
    \A i \in SessionIds :
        Delivered(i) =>
            LET s == sess[i]
                Coord(k) == <<s.jobs[k].z, s.jobs[k].x, s.jobs[k].y>>
            IN  /\ {<<e.z, e.x, e.y>> : e \in Archive(i).tiles}
                     = {Coord(k) : k \in s.okJobs}
                /\ Cardinality(Archive(i).tiles) = Cardinality(s.okJobs)
                /\ s.okJobs \subseteq 1..s.done
                /\ Archive(i).meta # Null

\* An archive was delivered with one tile in it and one job failed.
C2_ArchiveWithFailedJob ==
    \E i \in SessionIds :
        /\ Delivered(i)
        /\ sess[i].okJobs # {}
        /\ \E k \in 1..sess[i].done : k \notin sess[i].okJobs

\* the region name exportZip works out from the pack name field
RequestedRegion ==
    IF Trim(packName) # <<>> THEN Trim(packName) ELSE DefaultPackName

\* C3: the metadata of a delivered archive names the bounding box, the zoom
\* list, the tile source and the region name the export was started with,
\* also when only part of the plan was attempted.
C3_MetadataIsTheRequest ==
    \A i \in SessionIds :
        Delivered(i) =>
            /\ Archive(i).meta # Null
            /\ Archive(i).meta[1].bbox = bounds[1]
            /\ Archive(i).meta[1].zooms = effectiveZooms
            /\ Archive(i).meta[1].tileSource = tileTemplate
            /\ Archive(i).meta[1].region = RequestedRegion

\* An archive was delivered by a session stopped before its second zoom.
C3_PartialArchive ==
    \E i \in SessionIds :
        /\ Delivered(i)
        /\ sess[i].done < Len(sess[i].jobs)
        /\ \A k \in 1..sess[i].done : sess[i].jobs[k].z = 0
        /\ sess[i].done > 0
        /\ Len(Archive(i).meta[1].zooms) = 2

\* the controller of the request session i has in flight is aborted by
\* this step
AbortReaches(i) ==
    /\ sess[i].pc = "fetch"
    /\ ~aborted[sess[i].ctrl]
    /\ aborted'[sess[i].ctrl]

\* C4: when Cancel is clicked while a request of a job is in flight, the
\* request is aborted at once and the session ends there as cancelled: no
\* further request for this job or a later one, no retry delay, failedTiles
\* not incremented, no archive.
C4_AbortInFlight ==
    [][\A i \in SessionIds :
          AbortReaches(i) =>
              /\ sess'[i].pc = "end"
              /\ sess'[i].error \in CancelMessages
              /\ sess'[i].fetches = sess[i].fetches
              /\ sess'[i].delays = sess[i].delays
              /\ sess'[i].done = sess[i].done
              /\ ~Delivered(i)'
              /\ failedTiles' = failedTiles
              /\ exportError' \in CancelMessages
              /\ ~isExporting']_vars

\* A session ended on the abort of the request it had in flight.
C4_AbortedInFlight ==
    \E i \in SessionIds :
        /\ sess[i].pc = "end"
        /\ sess[i].error = AbortErrorMsg
        /\ sess[i].cancelRequested
        /\ sess[i].fetches = sess[i].delays + 1
        /\ aborted[sess[i].ctrl]

\* the terminal state Cancelled: the call has returned through its catch
\* with a cancellation error, and delivered nothing
Cancelled(i) ==
    /\ sess[i].pc = "end"
    /\ sess[i].error \in CancelMessages
    /\ ~Delivered(i)

\* C5: once Cancel was clicked on a running session, the session can only
\* end as Cancelled (and a second cancel changes nothing).
C5_CancelReachesCancelled ==
    /\ cancelExport(cancelExport(Shared)) = cancelExport(Shared)
    /\ \A i \in SessionIds :
          (sess[i].cancelRequested /\ sess[i].pc = "end") => Cancelled(i)

\* the request session i has in flight fails and it was the last attempt
LastAttemptFails(i) == FetchFails(i) /\ sess[i].fetches = MAX_RETRIES

\* C6: a job whose last attempt fails like its earlier ones (status not ok,
\* network error) adds one to failedTiles and nothing to the archive, and
\* the loop goes on to the next job; no such failure, on any attempt, ends
\* the session.
C6_FailureAbsorbed ==
    [][\A i \in SessionIds :
          /\ LastAttemptFails(i) =>
                /\ failedTiles' = failedTiles + 1
                /\ sess'[i].zipTiles = sess[i].zipTiles
                /\ sess'[i].okJobs = sess[i].okJobs
                /\ sess'[i].done = sess[i].done + 1
          /\ FetchFails(i) =>
                /\ sess'[i].error \in CancelMessages \cup {NoError}
                /\ sess'[i].pc = "end" =>
                      (abortRef = 0 /\ sess'[i].error = ExportCancelledMsg)
                /\ (abortRef # 0 /\ ~packNowRef) => Active(i)']_vars

\* A job failed on all its attempts and the session fetches the next job.
C6_NextJobAfterFailure ==
    \E i \in SessionIds :
        /\ sess[i].pc = "fetch"
        /\ sess[i].done = 1
        /\ sess[i].okJobs = {}
        /\ nsess = 1
        /\ failedTiles = 1

\* C7: a job that succeeds does so on its k-th request, k <= MAX_RETRIES,
\* after k - 1 delays, and records no failure; a job that never succeeds is
\* requested exactly MAX_RETRIES times with MAX_RETRIES - 1 delays.  The
\* delay follows a failed request that is not the last, and nothing else.
C7_AttemptsAndDelays ==
    [][\A i \in SessionIds :
          /\ BufferRead(i) =>
                /\ sess[i].fetches \in 1..MAX_RETRIES
                /\ sess[i].delays = sess[i].fetches - 1
                /\ failedTiles' = failedTiles
                /\ sess'[i].done = sess[i].done + 1
                /\ sess'[i].pc # "delay"
          /\ (FetchFails(i) /\ sess[i].fetches < MAX_RETRIES) =>
                /\ sess'[i].pc = "delay"
                /\ sess'[i].delays = sess[i].delays + 1
                /\ sess'[i].delays = sess[i].fetches
                /\ sess'[i].done = sess[i].done
                /\ failedTiles' = failedTiles
          /\ (FetchFails(i) /\ sess[i].fetches >= MAX_RETRIES) =>
                /\ sess[i].fetches = MAX_RETRIES
                /\ sess[i].delays = MAX_RETRIES - 1
                /\ sess'[i].pc # "delay"
                /\ sess'[i].done = sess[i].done + 1
          /\ (sess'[i].pc = "delay" /\ sess[i].pc # "delay") =>
                sess[i].pc = "fetch"
          /\ (RetryTimer(i) /\ Active(i)') =>
                /\ sess'[i].pc = "fetch"
                /\ sess'[i].fetches = sess[i].fetches + 1]_vars

\* A tile was stored by the third request for it, after two delays, and no
\* failure is recorded.
C7_ThirdAttemptSucceeded ==
    \E i \in SessionIds :
        /\ sess[i].pc = "yield"
        /\ sess[i].done = 1
        /\ sess[i].okJobs = {1}
        /\ sess[i].fetches = MAX_RETRIES
        /\ sess[i].delays = MAX_RETRIES - 1
        /\ failedTiles = 0

\* C10: a call of exportZip works on its own session only: it sends its
\* requests under the abort handle created for it; once Cancel was clicked
\* on it, it sends no further request; and as long as a session runs and
\* was not cancelled, its abort handle and isExporting are as it set them,
\* whatever an earlier call does when it wakes up.
C10_SessionsNotShared ==
    \A i \in SessionIds :
        /\ sess[i].pc = "fetch" => sess[i].ctrl = i
        /\ sess[i].cancelRequested => sess[i].pc # "fetch"
        /\ (Active(i) /\ ~sess[i].cancelRequested) =>
               (abortRef = i /\ isExporting)

\* the session state a rejected start must leave alone
SessionState == <<displayVars, refVars, nsess, sess>>

\* C8: Export with no bounding box, or with no resolved map source, starts
\* nothing: no call of exportZip gets past its guard in such a state, and
\* the click leaves isExporting, progress, the counters, the flags, the
\* abort handle and the error as they were, so no request is sent.
C8_StartRejected ==
    [][/\ nsess' # nsess => (bounds # Null /\ isTileSourceSelected)
       /\ (rejected' = "export" /\ (bounds = Null \/ ~isTileSourceSelected))
             => UNCHANGED SessionState]_vars

\* Export was clicked, and refused, on a page that still holds the bounds
\* of a custom map whose URL has since been made invalid.
C8_RefusedUnresolvedSource ==
    /\ rejected = "export"
    /\ bounds # Null
    /\ ~isTileSourceSelected
    /\ ~isExporting

\* the three terminal states of a session
Completed(i) == sess[i].pc = "end" /\ Delivered(i) /\ sess[i].error = NoError

Failed(i) ==
    sess[i].pc = "end" /\ ~Delivered(i) /\ sess[i].error = PackagingErrorMsg

Terminal(i) ==
    /\ Completed(i) \/ Cancelled(i) \/ Failed(i)
    /\ ~(Completed(i) /\ Cancelled(i))
    /\ ~(Completed(i) /\ Failed(i))
    /\ ~(Cancelled(i) /\ Failed(i))

C11_DeliveredOnceAfterPackaging ==
    [][\A i \in SessionIds :
          /\ sess'[i].saved # sess[i].saved =>
                /\ sess[i].saved = Null
                /\ sess[i].pc = "zip"
                /\ sess'[i].pc = "end"
                /\ sess'[i].error = NoError
                /\ Archive(i)'.tiles = sess[i].zipTiles
          /\ Active(i)' => ~Delivered(i)']_vars

\* A session fetched both its jobs and then delivered its archive.
C11_DeliveredAfterAllJobs ==
    \E i \in SessionIds :
        /\ Delivered(i)
        /\ sess[i].pc = "end"
        /\ sess[i].done = 2
        /\ sess[i].okJobs = {1, 2}

\* C12: when generateAsync rejects, the call ends as Failed: the error is
\* recorded and shown, nothing is delivered, and isExporting, the pause and
\* stop flags and the abort handle are cleared.
C12_PackagingFailureIsTerminal ==
    [][\A i \in SessionIds :
          ZipRejected(i) =>
              /\ Failed(i)'
              /\ exportError' = PackagingErrorMsg
              /\ ~isExporting'
              /\ ~pauseRef'
              /\ ~packNowRef'
              /\ abortRef' = 0
              /\ endedAt' # Null]_vars

\* A session that had stored a tile ended as Failed.
C12_FailedWithTiles ==
    \E i \in SessionIds :
        /\ Failed(i)
        /\ sess[i].okJobs # {}
        /\ exportError = PackagingErrorMsg

\* the step completes the current job of session i
CompletesJob(i) == BufferRead(i) \/ LastAttemptFails(i)

\* C13: in a call of exportZip the job list does not change once planned,
\* done starts at 0, grows by exactly one with each job processed, stored
\* or failed, changes at no other step, and never exceeds the job count.
C13_DoneCursor ==
    [][\A i \in SessionIds :
          /\ (sess[i].pc = "idle" /\ sess'[i].pc # "idle") =>
                (sess'[i].done = 0 /\ Len(sess'[i].jobs) > 0)
          /\ sess[i].pc # "idle" =>
                /\ sess'[i].jobs = sess[i].jobs
                /\ sess'[i].done =
                      IF CompletesJob(i) THEN sess[i].done + 1 ELSE sess[i].done
          /\ sess'[i].done <= Len(sess'[i].jobs)]_vars

\* A session processed both its jobs, the first of which failed.
C13_CountedFailedJob ==
    \E i \in SessionIds :
        /\ sess[i].done = 2
        /\ Len(sess[i].jobs) = 2
        /\ sess[i].okJobs = {2}


Started(i) == sess[i].pc # "idle"

\* (z, x, y) of j before (z, x, y) of k, zoom first, then column, then row
JobBefore(j, k) ==
    \/ j.z < k.z
    \/ j.z = k.z /\ j.x < k.x
    \/ j.z = k.z /\ j.x = k.x /\ j.y < k.y

\* the tiles of the inclusive projected range of box b over the zooms zs
TilesOfRange(b, zs) ==
    LET xa(z) == lon2tileX(b.west, z)
        xb(z) == lon2tileX(b.east, z)
        ya(z) == lat2tileY(clampLat(b.north), z)
        yb(z) == lat2tileY(clampLat(b.south), z)
    IN  UNION {{[z |-> z, x |-> x, y |-> y] :
                   x \in Min2(xa(z), xb(z))..Max2(xa(z), xb(z)),
                   y \in Min2(ya(z), yb(z))..Max2(ya(z), yb(z))} :
               z \in {zs[k] : k \in DOMAIN zs}}

\* C14: the planned jobs of a session are the tiles of the inclusive projected
\* range of the bounding box at each selected zoom, each one once, listed by
\* ascending zoom, then ascending x, then ascending y; two sessions planned
\* from the same box and zooms have the same job list.
C14_PlanIsOrderedRange ==
    \A i \in SessionIds : Started(i) =>
        LET jobs == sess[i].jobs IN
        /\ \A k \in 1..(Len(jobs) - 1) : JobBefore(jobs[k], jobs[k + 1])
        /\ {jobs[k] : k \in DOMAIN jobs} = TilesOfRange(bounds[1], effectiveZooms)
        /\ \A k \in 1..(Len(effectiveZooms) - 1) :
              effectiveZooms[k] < effectiveZooms[k + 1]
        /\ \A j \in SessionIds : Started(j) => sess[j].jobs = jobs

C14_TwoPlansOfSeveralZooms ==
    /\ nsess = 2
    /\ Started(1) /\ Started(2)
    /\ Len(effectiveZooms) = 3
    /\ \E k \in 1..(Len(sess[2].jobs) - 1) :
          /\ sess[2].jobs[k].z = sess[2].jobs[k + 1].z
          /\ sess[2].jobs[k].x < sess[2].jobs[k + 1].x
    /\ \E k \in 1..(Len(sess[2].jobs) - 1) :
          /\ sess[2].jobs[k].x = sess[2].jobs[k + 1].x
          /\ sess[2].jobs[k].y < sess[2].jobs[k + 1].y


JobsAtZoom(i, z) == SelectSeq(sess[i].jobs, LAMBDA j : j.z = z)

\* C15: for the bounding box and each selected zoom, tilesForBbox is the
\* number of (x, y) pairs the planner lists at that zoom, and the estimate
\* shown before the export is the length of the planned job list.
C15_EstimateCountsThePlan ==
    \A i \in SessionIds : Started(i) =>
        /\ \A k \in DOMAIN effectiveZooms :
              tilesForBbox(bounds[1].south, bounds[1].west, bounds[1].north,
                           bounds[1].east, effectiveZooms[k])
                 = Len(JobsAtZoom(i, effectiveZooms[k]))
        /\ estimateTiles = Some(Len(sess[i].jobs))

C15_CountedAcrossTheClamp ==
    \E i \in SessionIds :
        /\ Started(i)
        /\ bounds[1].north = Deg(90)
        /\ bounds[1].south = Deg(-37)
        /\ bounds[1].west < bounds[1].east
        /\ Len(effectiveZooms) = 2
        /\ Len(JobsAtZoom(i, 2)) > 4


\* the latitude limits applied to one edge, written out
Limited(lat) ==
    IF LatLE(MAX_LAT, lat) THEN MAX_LAT
    ELSE IF LatLE(lat, LatNeg(MAX_LAT)) THEN LatNeg(MAX_LAT)
    ELSE lat

\* C16: the north and the south edge are each limited to +-85.05112878
\* before projection, one independently of the other: the rows planned at
\* each zoom are those between the projections of the two limited edges, and
\* the job list is the one planned for the box with both edges limited.
C16_EdgesClampedSeparately ==
    \A i \in SessionIds : Started(i) =>
        LET b == bounds[1]
            limited == [b EXCEPT !.north = Limited(b.north),
                                 !.south = Limited(b.south)]
        IN  /\ \A k \in DOMAIN effectiveZooms :
                  LET z == effectiveZooms[k]
                      yn == lat2tileY(Limited(b.north), z)
                      ys == lat2tileY(Limited(b.south), z)
                      rows == {JobsAtZoom(i, z)[n].y : n \in DOMAIN JobsAtZoom(i, z)}
                  IN  rows = Min2(yn, ys)..Max2(yn, ys)
            /\ sess[i].jobs = PlanJobs(limited, effectiveZooms)

C16_PlannedFromPoleToPole ==
    \E i \in SessionIds :
        /\ Started(i)
        /\ bounds[1].north = Deg(90)
        /\ bounds[1].south = Deg(-90)
        /\ sess[i].jobs = PlanJobs([bounds[1] EXCEPT !.north = MAX_LAT,
                                                     !.south = LatNeg(MAX_LAT)],
                                   effectiveZooms)
        /\ Len(sess[i].jobs) > 1


\* C17: a click on Pause / Resume while no call of exportZip is running or
\* paused changes nothing: the pause flag, the displayed paused status and
\* the rest of the page stay as they were; and a session started afterwards
\* starts unpaused, with its first request sent.
C17_PauseWithoutSessionIsNoOp ==
    [][/\ ((\A i \in SessionIds : ~Active(i)) /\ (ClickPause \/ ClickPauseDisabled))
             => UNCHANGED <<inputVars, SessionState>>
       /\ nsess' # nsess =>
             ~pauseRef' /\ ~isPaused' /\ sess'[nsess'].pc = "fetch"]_vars

\* Pause was clicked on the progress panel left by an export that has ended.
C17_PauseClickedAfterTheEnd ==
    /\ rejected = "pause"
    /\ nsess = 1
    /\ sess[1].pc = "end"
    /\ progress # Null
    /\ ~pauseRef /\ ~isPaused


RECURSIVE AlnumRuns(_, _)
AlnumRuns(s, cur) ==
    LET closed == IF cur = <<>> THEN <<>> ELSE <<cur>> IN
    IF s = <<>> THEN closed
    ELSE IF IsAlnum(Head(s)) THEN AlnumRuns(Tail(s), Append(cur, Head(s)))
    ELSE closed \o AlnumRuns(Tail(s), <<>>)

RECURSIVE JoinRuns(_)
JoinRuns(runs) ==
    IF runs = <<>> THEN <<>>
    ELSE IF Len(runs) = 1 THEN runs[1]
    ELSE runs[1] \o <<"_">> \o JoinRuns(Tail(runs))

\* C19: the sanitized name of an export holds only ASCII letters, digits and
\* underscores, does not begin or end with an underscore and has no two
\* underscores in a row; it is the runs of letters and digits of the region
\* name (accented letters counted as their base letter) with a single
\* underscore where a run of other characters separated them; and
\* sanitizing it again gives the same name.
C19_SanitizedName ==
    \A i \in SessionIds : Started(i) =>
        LET out == sess[i].placeName
            plain == StripMarks(NFKD(RequestedRegion))
        IN  /\ \A k \in DOMAIN out : IsAlnum(out[k]) \/ out[k] = "_"
            /\ out # <<>> => out[1] # "_" /\ out[Len(out)] # "_"
            /\ \A k \in 1..(Len(out) - 1) : ~(out[k] = "_" /\ out[k + 1] = "_")
            /\ out = JoinRuns(AlnumRuns(plain, <<>>))
            /\ out = normalizeName(RequestedRegion)
            /\ normalizeName(out) = out

\* An export named by an accented a, a slash, an underscore and a Z: the
\* sanitized name is a_Z.
C19_AccentAndSeparators ==
    \E i \in SessionIds :
        /\ Started(i)
        /\ packName = <<"U+00E3", "/", "_", "Z">>
        /\ sess[i].placeName = <<"a", "_", "Z">>


\* the number of jobs of call i whose processing has begun
Begun(i) ==
    IF sess[i].pc \in {"fetch", "buffer", "delay"} THEN sess[i].done + 1
    ELSE sess[i].done

\* C20: from the click on "Stop and pack" on, a call of exportZip that was
\* running or paused at the click begins no further job, so the jobs not
\* begun at the click are never requested; and unless it is cancelled, it
\* passes its next job boundary into packaging: it does not return from
\* anywhere but the packaging.
C20_StopBeginsNoJob ==
    [][\A i \in SessionIds : sess[i].stopRequested =>
          /\ Begun(i)' <= Begun(i)
          /\ (Active(i) /\ ~Active(i)' /\ ~sess'[i].cancelRequested)
                => sess[i].pc = "zip"]_vars


\* call i is inside a job: a request, a body read or a retry delay is pending
MidJob(i) == sess[i].pc \in {"fetch", "buffer", "delay"}

\* C21: Pause and "Stop and pack" act at job boundaries only.  A click on
\* either leaves every call where it is; a call inside a job leaves the job
\* only by completing it (the tile stored, or MAX_RETRIES requests failed)
\* unless a request of it is aborted; and a controller is aborted by a
\* Cancel click only.
C21_JobRunsToItsEnd ==
    [][\A i \in SessionIds :
          /\ (ClickPause \/ ClickStop) =>
                sess'[i] = [sess[i] EXCEPT !.stopRequested = sess'[i].stopRequested]
          /\ (MidJob(i) /\ sess'[i].error # AbortErrorMsg) =>
                \/ MidJob(i)' /\ sess'[i].done = sess[i].done
                \/ /\ sess'[i].done = sess[i].done + 1
                   /\ \/ sess'[i].okJobs = sess[i].okJobs \cup {sess'[i].done}
                      \/ /\ sess[i].fetches = MAX_RETRIES
                         /\ sess[i].delays = MAX_RETRIES - 1
                         /\ failedTiles' = failedTiles + 1
          /\ (~aborted[i] /\ aborted'[i]) =>
                /\ CancelShown /\ abortRef = i
                /\ abortRef' = 0 /\ exportError' \in {CancelledMsg, AbortErrorMsg}]_vars

\* Stop was clicked on a call whose first job then took its three requests
\* and was stored; the call went on to the packaging, not to its second job.
C21_StoppedDuringRetries ==
    /\ nsess = 1
    /\ sess[1].stopRequested /\ ~sess[1].cancelRequested
    /\ sess[1].pc = "zip"
    /\ Len(sess[1].jobs) = 2
    /\ sess[1].done = 1
    /\ sess[1].okJobs = {1}
    /\ sess[1].fetches = MAX_RETRIES


\* C22: a call waiting at a job boundary stays there while the pause flag
\* is set; it goes on to a request only if neither Stop nor Cancel was
\* clicked on it; after Stop it leaves the wait for the packaging, and after
\* Cancel it leaves the wait by returning, with nothing requested.
C22_PausedBoundaryStartsNoFetch ==
    [][\A i \in SessionIds : sess[i].pc = "wait" =>
          /\ pauseRef => sess'[i].pc = "wait"
          /\ MidJob(i)' => ~sess[i].stopRequested /\ ~sess[i].cancelRequested
          /\ (sess[i].stopRequested /\ ~sess[i].cancelRequested
                 /\ sess'[i].pc # "wait") => sess'[i].pc = "zip"
          /\ (sess[i].cancelRequested /\ sess'[i].pc # "wait")
                => sess'[i].pc = "end" /\ sess'[i].error = ExportCancelledMsg]_vars


\* C23: a call on which "Stop and pack" was clicked, and Cancel was not,
\* gets to the delivery of its archive by itself, whatever Pause clicks came
\* before or after: it is never held in the wait by the pause flag, where
\* only another click would release it, and when it has returned it has
\* delivered an archive, or the packaging has failed.
C23_StoppedCallNeedsNoClick ==
    \A i \in SessionIds :
        (sess[i].stopRequested /\ ~sess[i].cancelRequested) =>
            /\ ~(sess[i].pc = "wait" /\ pauseRef)
            /\ sess[i].pc = "end" =>
                  \/ Delivered(i) /\ sess[i].error = NoError
                  \/ sess[i].error = PackagingErrorMsg


\* the calls of exportZip that have a tile request in flight
InFlight == {i \in SessionIds : sess[i].pc = "fetch"}

\* C24: at most one tile request is in flight at any time, whatever the
\* order of the Export, Pause, Stop and Cancel clicks, an Export clicked
\* right after a Cancel included.
C24_OneRequestInFlight == Cardinality(InFlight) <= 1


\* C25: progress is shown in batches.  The start of a call shows done = 0
\* of the planned total; a call that completes a job shows its new done,
\* which is one more than before and at most the total, exactly if it is a
\* multiple of PROGRESS_EVERY or the total, and then yields; no other step
\* changes what is shown.  So a call that has processed every job has shown
\* done = total.
C25_ProgressInBatches ==
    [][/\ \A i \in SessionIds :
            /\ (~Started(i) /\ Started(i)') =>
                  progress' = Some([done |-> 0, total |-> Len(sess'[i].jobs)])
            /\ (Started(i) /\ sess'[i].done # sess[i].done) =>
                  LET d == sess'[i].done
                      total == Len(sess[i].jobs)
                  IN  /\ d = sess[i].done + 1
                      /\ d <= total
                      /\ IF d % PROGRESS_EVERY = 0 \/ d = total
                         THEN /\ progress' = Some([done |-> d, total |-> total])
                              /\ sess'[i].pc = "yield"
                         ELSE /\ progress' = progress
                              /\ sess'[i].pc # "yield"
       /\ (\A i \in SessionIds : /\ Started(i)' = Started(i)
                                 /\ sess'[i].done = sess[i].done)
             => progress' = progress]_vars

\* A call has processed its 52 jobs and its last progress shown is 52 of 52;
\* on the way it showed 25 and 50.
C25_ShownAtTheEnd ==
    /\ nsess = 1
    /\ sess[1].pc = "end"
    /\ Len(sess[1].jobs) = 52
    /\ sess[1].done = 52
    /\ progress = Some([done |-> 52, total |-> 52])
    /\ failedTiles = 1


\* template with every placeholder token replaced: {s} by sub, {z}, {x} and
\* {y} by the decimal coordinates of job
RECURSIVE Substituted(_, _, _)
Substituted(template, job, sub) ==
    IF template = <<>> THEN <<>>
    ELSE (CASE Head(template) = "{s}" -> sub
            [] Head(template) = "{z}" -> String(job.z)
            [] Head(template) = "{x}" -> String(job.x)
            [] Head(template) = "{y}" -> String(job.y)
            [] OTHER -> <<Head(template)>>)
         \o Substituted(Tail(template), job, sub)

\* the URL a call has to request for a job: the mirror is
\* subs[(x + y) mod subs.length] if the template has {s} and there are
\* mirrors, and none otherwise
ResolvedUrl(template, subs, job) ==
    Substituted(template, job,
                IF Includes(template, "{s}") /\ Len(subs) > 0
                THEN <<subs[((job.x + job.y) % Len(subs)) + 1]>>
                ELSE <<>>)

\* C26: the URL requested for a job is the template with z, x and y
\* substituted and with {s} replaced by subdomains[(x + y) mod
\* subdomains.length], or by nothing if there are no subdomains; this holds
\* for every job of the plan and for the request the call has prepared.
C26_UrlResolved ==
    \A i \in SessionIds : Started(i) =>
        LET template == sess[i].meta[1].tileSource
            subs == sess[i].subs
            jobs == sess[i].jobs
        IN  /\ \A k \in DOMAIN jobs :
                  buildTileUrl(template, jobs[k].z, jobs[k].x, jobs[k].y,
                               SubdomainOf(subs, jobs[k]))
                     = ResolvedUrl(template, subs, jobs[k])
            /\ (MidJob(i) \/ sess[i].pc = "wait") =>
                  sess[i].url = ResolvedUrl(template, subs, jobs[sess[i].done + 1])


\* the sum of the byte lengths of a set of archive entries
RECURSIVE TileBytes(_)
TileBytes(tiles) ==
    IF tiles = {} THEN 0
    ELSE LET e == CHOOSE t \in tiles : TRUE
         IN  e.size + TileBytes(tiles \ {e})

\* C27: the byte counter of the session is 0 at its start and is, from then
\* on, the sum of the byte lengths of the tiles stored in its archive: a
\* stored tile has added its length once, a failed attempt nothing.
C27_BytesAreTheStoredTiles ==
    nsess > 0 => downloadedBytes = TileBytes(sess[nsess].zipTiles)


\* C28: every planned job has non-negative z, x and y, and no (z, x, y)
\* occurs twice in the job list of a call, for every area and every zoom
\* range.
C28_JobsNonNegativeAndDistinct ==
    \A i \in SessionIds : Started(i) =>
        LET jobs == sess[i].jobs IN
        /\ \A k \in DOMAIN jobs : jobs[k].z >= 0 /\ jobs[k].x >= 0 /\ jobs[k].y >= 0
        /\ \A k, n \in DOMAIN jobs : jobs[k] = jobs[n] => k = n

\* {isPaused ? "Paused" : isExporting ? "Running" : endedAt ? "Done" : "Idle"}
StatusLabel ==
    IF isPaused THEN "Paused"
    ELSE IF isExporting THEN "Running"
    ELSE IF endedAt # Null THEN "Done" ELSE "Idle"

\* C29: the displayed paused status equals the executor's pause flag in
\* every reachable state, and when no call of exportZip is running the
\* status label is not "Paused".
C29_PausedStatusIsThePauseFlag ==
    /\ isPaused = pauseRef
    /\ (\A i \in SessionIds : ~Active(i)) => StatusLabel # "Paused"

FlagsCleared == ~pauseRef /\ ~packNowRef /\ abortRef = 0 /\ ~isExporting

\* The shared state as calls of togglePause and stopAndPack made while no
\* export runs would leave it.
CalledWhileIdle ==
    {togglePause(Shared), stopAndPack(Shared), togglePause(stopAndPack(Shared))}

\* C30: every step in which a call of exportZip returns, and every Cancel,
\* leaves pauseRef, packNowRef and abortRef cleared and isExporting false;
\* every start clears the two flags, installs a fresh abort handle and goes
\* straight to the first fetch, also from a shared state in which the pause
\* or the stop-and-pack flag had been set while idle.
C30_EndsAndStartsClearTheFlags ==
    [][/\ \A i \in SessionIds :
            /\ (Active(i) /\ sess'[i].pc = "end") => FlagsCleared'
            /\ (~aborted[i] /\ aborted'[i]) => FlagsCleared'
       /\ nsess' = nsess + 1 =>
            /\ ~pauseRef' /\ ~packNowRef' /\ isExporting'
            /\ abortRef' = nsess' /\ ~aborted'[nsess']
            /\ sess'[nsess'].pc = "fetch" /\ ~sess'[nsess'].stopRequested
            /\ \A sh \in CalledWhileIdle :
                  LET m == exportZip(sh, nsess') IN
                  /\ ~m.sh.pauseRef /\ ~m.sh.packNowRef /\ m.sh.abortRef = nsess'
                  /\ m.me.pc = "fetch"]_vars

C30_BegunAfterStopAndPack ==
    /\ nsess = 2 /\ sess[1].pc = "end" /\ sess[1].stopRequested
    /\ ~sess[1].cancelRequested /\ Delivered(1)
    /\ sess[2].pc = "fetch" /\ ~pauseRef /\ ~packNowRef /\ abortRef = 2

\* C31: at every await of the call that owns the counters (the one started
\* last), failedTiles <= done <= jobs.length, and the number of tile entries
\* added to the archive is done - failedTiles.
C31_DoneSplitsIntoStoredAndFailed ==
    nsess > 0 =>
        LET me == sess[nsess] IN
        /\ failedTiles <= me.done
        /\ me.done <= Len(me.jobs)
        /\ Cardinality(me.zipTiles) = me.done - failedTiles

(***************************************************************************)
(* The exporter while the user goes on editing the inputs: nothing on the  *)
(* page is disabled during an export except the Export button, so the map  *)
(* source, the custom URL, the zoom range, the area and the pack name can  *)
(* change under a running call.                                            *)
(***************************************************************************)
InitEdit == Init /\ zoomTo = 0 /\ packName = <<>>

ClickExportEdit == StartExport(MaxUISessions)

NextEdit ==
    \/ \E id \in ProviderChoices : SelectProvider(id)
    \/ \E u \in CustomUrls : TypeCustomUrl(u)
    \/ ClickLoadMap
    \/ \E b \in BBoxes : MapBounds(b)
    \/ \E z \in 0..MaxZoom : SelectZoomFrom(z)
    \/ \E z \in 0..MaxZoom : SelectZoomTo(z)
    \/ \E n \in PackNames : TypePackName(n)
    \/ ClickExportEdit
    \/ ClickPause
    \/ SessionStep

SpecEdit == InitEdit /\ [][NextEdit]_vars

\* the metadata of a call made on the inputs of the current render
CapturedMeta ==
    LET regionName ==
            IF Trim(packName) # <<>> THEN Trim(packName) ELSE DefaultPackName
    IN  Some([region |-> regionName, bbox |-> bounds[1],
              zooms |-> effectiveZooms, createdAt |-> Now,
              tileSource |-> tileTemplate])

\* C32: a call of exportZip takes its job list, subdomains, file name and
\* metadata from the inputs of the render it was made on, and no later step,
\* whatever it changes in the map source, the custom URL, the zoom range, the
\* area or the pack name, changes them: the total shown, the URL of every
\* job and the name and metadata of the saved archive are those of the
\* captured inputs.
C32_InputsCapturedAtStart ==
    [][\A i \in SessionIds :
          /\ (sess[i].pc = "idle" /\ sess'[i].pc # "idle") =>
                /\ sess'[i].meta = CapturedMeta
                /\ sess'[i].jobs = PlanJobs(bounds[1], effectiveZooms)
                /\ sess'[i].subs = tileSubdomains
                /\ sess'[i].placeName = normalizeName(CapturedMeta[1].region)
          /\ sess[i].pc # "idle" =>
                /\ sess'[i].jobs = sess[i].jobs
                /\ sess'[i].meta = sess[i].meta
                /\ sess'[i].subs = sess[i].subs
                /\ sess'[i].placeName = sess[i].placeName
          /\ (Active(i)' /\ abortRef' = i) =>
                progress'[1].total = Len(sess'[i].jobs)
          /\ (sess'[i].pc \in {"wait", "fetch", "buffer", "delay"}) =>
                LET job == sess'[i].jobs[sess'[i].done + 1] IN
                sess'[i].url =
                    buildTileUrl(sess'[i].meta[1].tileSource, job.z, job.x,
                                 job.y, SubdomainOf(sess'[i].subs, job))
          /\ (sess'[i].saved # Null) =>
                /\ sess'[i].saved[1].name = sess'[i].placeName \o <<".zip">>
                /\ sess'[i].saved[1].meta = sess'[i].meta]_vars

C32_EverythingEditedUnderTheCall ==
    /\ sess[1].pc = "fetch" /\ sess[1].done = 1
    /\ tileTemplate # sess[1].meta[1].tileSource
    /\ tileSubdomains # sess[1].subs
    /\ tileProviderId = "custom" /\ customTileUrl # <<>>
    /\ bounds # Null /\ bounds # Some(sess[1].meta[1].bbox)
    /\ effectiveZooms # sess[1].meta[1].zooms
    /\ packName # <<>> /\ sess[1].meta[1].region # Trim(packName)

=============================================================================
